---- MODULE Spec2Model ----
(***************************************************************************)
(* Observation store of the SVU data pipeline:                             *)
(* DataIngestionPipeline (src/pipeline/ingest.py) and the clear_data       *)
(* wrapper of DataPipelineManager (src/pipeline/manager.py).               *)
(*                                                                         *)
(* Confidences and thresholds are in tenths (0.7 is 7, 1.0 is 10).         *)
(***************************************************************************)
EXTENDS Integers, Sequences, FiniteSets, TLC

\* Longest buffer (self.data_points) the model explores.
MaxBuf == 2

\* Defaults of the code, in tenths.
DefaultMinConfidence == 7
DefaultConfidence == 10

\* Python's None (a DataPoint field that was not given) and pandas' NaN (a
\* DataFrame cell whose column the row's dict did not have).
None == -1
NaN == -2

\* Input domains.
Timestamps == {1}
ItemIds == {1, 2}
Values == {1}
Sources == {"a", "b"}
Confidences == {6, DefaultConfidence}
Thresholds == {5, DefaultMinConfidence}
DataTypes == {"price", "exchange_rate"}
\* priority_sources: the empty set stands for None and for an empty list,
\* which `if priority_sources:` treats alike.
PrioritySources == {{}, {"a"}}

PriceColumns == {"timestamp", "value", "item_id"}
RateColumns == {"timestamp", "value", "source_item_id", "target_item_id"}
\* Column sets of the DataFrames handed to ingest_data: complete ones and
\* ones that lack one or several required columns.
ColumnSets ==
    {PriceColumns, RateColumns, PriceColumns \ {"value"}, RateColumns \ {"timestamp"}}

ColumnDomain(col) ==
    IF col = "timestamp" THEN Timestamps
    ELSE IF col = "value" THEN Values
    ELSE ItemIds

\* The rows a DataFrame with these columns can hold.
RowsOver(columns) ==
    {r \in [columns -> Timestamps \cup Values \cup ItemIds] :
        \A col \in columns : r[col] \in ColumnDomain(col)}

VARIABLES
    data_points,   \* DataIngestionPipeline.data_points
    ret,           \* the last call: its name, arguments and outcome
    prev_merge,    \* what the call before the last returned, when both are
                   \* merge_data calls with equal arguments; else NoMerge
    stale,         \* how many leading data_points were ingested before the
                   \* last clear_data
    discarded,     \* whether a clear_data has discarded data points so far
    validation,    \* the frames a caller hands to DataValidator, with the
                   \* last call and its report
    db,            \* the rows behind the database session (self.db)
    graph,         \* ValueGraph: self.graph and self.timestamp
    threads,       \* the ingest_data calls in flight: each one's arguments
                   \* and the number of rows its loop has appended
    written        \* for every data point of the buffer, how many times a
                   \* save_to_database has committed a row made from it

vars ==
    <<data_points, ret, prev_merge, stale, discarded, validation, db, graph, threads,
      written>>

NoMerge == [raised |-> FALSE, points |-> <<>>, none |-> TRUE]

\* No DataValidator call so far, on empty frames.
NoValidation ==
    [prices |-> <<>>, rates |-> <<>>, call |-> [op |-> "none"],
     report |-> [validation_passed |-> FALSE]]

\* A database without rows.
EmptyDb == [items |-> {}, prices |-> <<>>, rates |-> <<>>]

\* ValueGraph.__init__: nx.DiGraph() and timestamp None.
EmptyGraph == [nodes |-> {}, edges |-> {}, attributes |-> <<>>, timestamp |-> None]

----------------------------------------------------------------------------
\* DataPoint and DataPoint.to_dict

DataPoint(timestamp, item_id, value, source, confidence, type, source_item_id, target_item_id) ==
    [timestamp |-> timestamp, item_id |-> item_id, value |-> value,
     source |-> source, confidence |-> confidence, type |-> type,
     source_item_id |-> source_item_id, target_item_id |-> target_item_id]

\* The DataFrame row of a data point: to_dict gives a price no
\* source_item_id/target_item_id key, so pandas fills those cells with NaN.
ToDict(dp) ==
    IF dp.type = "exchange_rate"
    THEN dp
    ELSE [dp EXCEPT !.source_item_id = NaN, !.target_item_id = NaN]

----------------------------------------------------------------------------
\* ingest_data

RequiredColumns(data_type) ==
    {"timestamp", "value"} \cup
        (IF data_type = "price" THEN {"item_id"}
         ELSE IF data_type = "exchange_rate" THEN {"source_item_id", "target_item_id"}
         ELSE {})

\* all(col in data.columns for col in required_columns)
HasRequired(columns, required) == required \subseteq columns

\* The columns the loop body reads from a row, in the order it reads them.
RowReads(data_type) ==
    IF data_type = "price"
    THEN <<"timestamp", "item_id", "value">>
    ELSE <<"timestamp", "source_item_id", "value", "source_item_id", "target_item_id">>

\* The first column the loop body reads that the row does not have
\* (row[col] raises KeyError(col)), or "" when it has them all.
FirstMissingRead(columns, data_type) ==
    LET reads == RowReads(data_type)
        bad == {i \in 1..Len(reads) : reads[i] \notin columns}
    IN IF bad = {} THEN ""
       ELSE reads[CHOOSE i \in bad : \A j \in bad : i <= j]

MakeDataPoint_DefaultConfidence(row, source, data_type, confidence) ==
    IF data_type = "price"
    THEN DataPoint(row["timestamp"], row["item_id"], row["value"], source,
                   DefaultConfidence, "price", None, None)
    ELSE DataPoint(row["timestamp"], row["source_item_id"], row["value"], source,
                   DefaultConfidence, "exchange_rate",
                   row["source_item_id"], row["target_item_id"])

\* The DataPoint the loop body builds from one row.
MakeDataPoint(row, source, data_type, confidence) ==
    IF data_type = "price"
    THEN DataPoint(row["timestamp"], row["item_id"], row["value"], source,
                   confidence, "price", None, None)
    ELSE DataPoint(row["timestamp"], row["source_item_id"], row["value"], source,
                   confidence, "exchange_rate",
                   row["source_item_id"], row["target_item_id"])

\* An ingest_data that builds its data points with row.get (None for a
\* column the row lacks) and checks the columns only after the loop.
IngestOutcome_LateCheck(columns, rows, source, data_type, confidence) ==
    LET Get(row, col) == IF col \in columns THEN row[col] ELSE None
        Point(row) ==
            IF data_type = "price"
            THEN DataPoint(Get(row, "timestamp"), Get(row, "item_id"), Get(row, "value"),
                           source, confidence, "price", None, None)
            ELSE DataPoint(Get(row, "timestamp"), Get(row, "source_item_id"),
                           Get(row, "value"), source, confidence, "exchange_rate",
                           Get(row, "source_item_id"), Get(row, "target_item_id"))
    IN [raised |-> ~HasRequired(columns, RequiredColumns(data_type)),
        names |-> RequiredColumns(data_type) \ columns,
        appended |-> [i \in 1..Len(rows) |-> Point(rows[i])]]

\* What a call of ingest_data does: whether it raises, the columns its error
\* message names, and the data points it has appended by then.
IngestOutcome(columns, rows, source, data_type, confidence) ==
    IF ~HasRequired(columns, RequiredColumns(data_type))
    THEN \* ValueError listing required_columns
         [raised |-> TRUE, names |-> RequiredColumns(data_type), appended |-> <<>>]
    ELSE IF Len(rows) > 0 /\ FirstMissingRead(columns, data_type) # ""
    THEN \* KeyError of the first row, before its append
         [raised |-> TRUE, names |-> {FirstMissingRead(columns, data_type)},
          appended |-> <<>>]
    ELSE [raised |-> FALSE, names |-> {},
          appended |-> [i \in 1..Len(rows) |->
                           MakeDataPoint(rows[i], source, data_type, confidence)]]

\* One call of ingest_data. Of a call that raised, ret keeps what decided
\* its outcome: the frame's columns and length and the data type.
IngestData(columns, rows, source, data_type, confidence) ==
    LET out == IngestOutcome(columns, rows, source, data_type, confidence)
    IN /\ data_points' = data_points \o out.appended
       /\ ret' = [op |-> "ingest",
                  columns |-> columns, len |-> Len(rows),
                  rows |-> IF out.raised THEN <<>> ELSE rows,
                  source |-> IF out.raised THEN "" ELSE source,
                  data_type |-> data_type,
                  confidence |-> IF out.raised THEN None ELSE confidence,
                  raised |-> out.raised, names |-> out.names,
                  value |-> None]
       /\ prev_merge' = NoMerge
       /\ UNCHANGED <<stale, discarded, validation, db, graph, threads, written>>

Ingest ==
    \E columns \in ColumnSets, n \in 1..(MaxBuf - Len(data_points)) :
    \E rows \in [1..n -> RowsOver(columns)] :
    \E source \in Sources, data_type \in DataTypes, confidence \in Confidences :
        IngestData(columns, rows, source, data_type, confidence)

----------------------------------------------------------------------------
\* merge_data

\* df = pd.DataFrame([dp.to_dict() for dp in self.data_points]): row i of
\* the frame (index label i) is the i-th data point.
Frame(buf) == [i \in 1..Len(buf) |-> ToDict(buf[i])]

\* df.groupby(['timestamp', 'item_id'])
GroupKey(row) == <<row.timestamp, row.item_id>>

\* groupby sorts the group keys (sort=True): tuples compare lexicographically.
KeyLess(k1, k2) == k1[1] < k2[1] \/ (k1[1] = k2[1] /\ k1[2] < k2[2])

RECURSIVE SortKeys(_)
SortKeys(keys) ==
    IF keys = {} THEN <<>>
    ELSE LET first == CHOOSE k \in keys : \A o \in keys : o = k \/ KeyLess(k, o)
         IN <<first>> \o SortKeys(keys \ {first})

\* The index labels of one group; a group keeps the frame's row order.
GroupLabels(df, key) == {i \in DOMAIN df : GroupKey(df[i]) = key}

FilterConfidence_Off(df, labels, min_confidence) == labels

\* group[group['confidence'] >= min_confidence]
FilterConfidence(df, labels, min_confidence) ==
    {i \in labels : df[i].confidence >= min_confidence}

PriorityGroup_Ignored(df, labels, priority_sources) == labels

\* if priority_sources: restrict to the listed sources when any member is listed
PriorityGroup(df, labels, priority_sources) ==
    IF priority_sources # {}
    THEN LET priority_group == {i \in labels : df[i].source \in priority_sources}
         IN IF priority_group # {} THEN priority_group ELSE labels
    ELSE labels

IdxMax_Last(df, labels) ==
    CHOOSE i \in labels :
        /\ \A j \in labels : df[j].confidence <= df[i].confidence
        /\ \A j \in labels : df[j].confidence = df[i].confidence => j <= i

\* group['confidence'].idxmax(): the label of the first row, in row order,
\* that holds the maximum.
IdxMax(df, labels) ==
    CHOOSE i \in labels :
        /\ \A j \in labels : df[j].confidence <= df[i].confidence
        /\ \A j \in labels : df[j].confidence = df[i].confidence => i <= j

\* The loop over the groups: one row per group that is not empty after the
\* confidence filter.
RECURSIVE MergeGroups(_, _, _, _)
MergeGroups(df, keys, priority_sources, min_confidence) ==
    IF keys = <<>> THEN <<>>
    ELSE LET group == FilterConfidence(df, GroupLabels(df, Head(keys)), min_confidence)
             rest == MergeGroups(df, Tail(keys), priority_sources, min_confidence)
         IN IF group = {} THEN rest
            ELSE LET best == IdxMax(df, PriorityGroup(df, group, priority_sources))
                 IN <<[label |-> best, row |-> df[best]]>> \o rest

\* The try block of merge_data.
MergeBody(buf, priority_sources, min_confidence) ==
    IF buf = <<>>
    THEN [raised |-> TRUE, points |-> <<>>]      \* ValueError
    ELSE LET df == Frame(buf)
             keys == SortKeys({GroupKey(df[i]) : i \in DOMAIN df})
         IN [raised |-> FALSE,
             points |-> MergeGroups(df, keys, priority_sources, min_confidence)]

MergeExcept_Reraise(outcome) == outcome

\* except Exception: log and return pd.DataFrame()
MergeExcept(outcome) ==
    IF outcome.raised THEN [raised |-> FALSE, points |-> <<>>] ELSE outcome

MergeResult(buf, priority_sources, min_confidence) ==
    MergeExcept(MergeBody(buf, priority_sources, min_confidence))

MergeArgs(priority_sources, min_confidence) ==
    [priority_sources |-> priority_sources, min_confidence |-> min_confidence]

\* A merge that empties the buffer it has merged.
MergeData_Draining(priority_sources, min_confidence) ==
    LET out == MergeResult(data_points, priority_sources, min_confidence)
    IN /\ ret' = [op |-> "merge",
                  args |-> MergeArgs(priority_sources, min_confidence),
                  raised |-> out.raised, value |-> out.points]
       /\ prev_merge' =
            IF ret.op = "merge" /\ ret.args = MergeArgs(priority_sources, min_confidence)
            THEN [raised |-> ret.raised, points |-> ret.value, none |-> FALSE]
            ELSE NoMerge
       /\ data_points' = <<>>
       /\ stale' = 0
       /\ UNCHANGED <<discarded, validation, db, graph, threads, written>>

MergeData(priority_sources, min_confidence) ==
    LET out == MergeResult(data_points, priority_sources, min_confidence)
    IN /\ ret' = [op |-> "merge",
                  args |-> MergeArgs(priority_sources, min_confidence),
                  raised |-> out.raised, value |-> out.points]
       /\ prev_merge' =
            IF ret.op = "merge" /\ ret.args = MergeArgs(priority_sources, min_confidence)
            THEN [raised |-> ret.raised, points |-> ret.value, none |-> FALSE]
            ELSE NoMerge
       /\ UNCHANGED <<data_points, stale, discarded, validation, db, graph, threads, written>>

Merge ==
    \E priority_sources \in PrioritySources, min_confidence \in Thresholds :
        MergeData(priority_sources, min_confidence)

----------------------------------------------------------------------------
\* clear_data

ClearedBuffer_KeepLast(buf) == IF buf = <<>> THEN <<>> ELSE <<buf[Len(buf)]>>

\* self.data_points.clear()
ClearedBuffer(buf) == <<>>

ClearData ==
    /\ data_points' = ClearedBuffer(data_points)
    /\ ret' = [op |-> "clear", raised |-> FALSE, value |-> None]
    /\ prev_merge' = NoMerge
    /\ stale' = Len(data_points')
    /\ discarded' = (discarded \/ data_points # <<>>)
    /\ UNCHANGED <<validation, db, graph, threads, written>>

\* DataPipelineManager.clear_data: calls the pipeline's clear_data and lets
\* an exception through.
ManagerClearData ==
    /\ data_points' = ClearedBuffer(data_points)
    /\ ret' = [op |-> "manager_clear", raised |-> FALSE, value |-> None]
    /\ prev_merge' = NoMerge
    /\ stale' = Len(data_points')
    /\ discarded' = (discarded \/ data_points # <<>>)
    /\ UNCHANGED <<validation, db, graph, threads, written>>

----------------------------------------------------------------------------
\* get_statistics

RECURSIVE SumConfidence(_)
SumConfidence(buf) ==
    IF buf = <<>> THEN 0 ELSE Head(buf).confidence + SumConfidence(Tail(buf))

\* len(df[df['type'] == type])
CountType(df, type) == Cardinality({i \in DOMAIN df : df[i].type = type})

\* df['source'].value_counts()[source]
CountSource(df, source) == Cardinality({i \in DOMAIN df : df[i].source = source})

\* The dict returned for an empty buffer; a mean is kept as sum over count.
EmptyStatistics ==
    [total_points |-> 0, price_points |-> 0, rate_points |-> 0,
     sources |-> [s \in {} |-> 0],
     confidence_stats |-> [mean |-> [sum |-> 0, count |-> 1], min |-> 0, max |-> 0]]

\* The try block of get_statistics (nothing in it raises on these buffers,
\* so its except branch, which returns {}, is never taken).
Statistics(buf) ==
    IF buf = <<>> THEN EmptyStatistics
    ELSE LET df == Frame(buf)
             confs == {df[i].confidence : i \in DOMAIN df}
         IN [total_points |-> Len(df),
             price_points |-> CountType(df, "price"),
             rate_points |-> CountType(df, "exchange_rate"),
             sources |-> [s \in {df[i].source : i \in DOMAIN df} |->
                             CountSource(df, s)],
             confidence_stats |->
                [mean |-> [sum |-> SumConfidence(buf), count |-> Len(df)],
                 min |-> CHOOSE c \in confs : \A d \in confs : c <= d,
                 max |-> CHOOSE c \in confs : \A d \in confs : d <= c]]

\* A get_statistics that drains the buffer it reports on.
GetStatistics_Draining ==
    /\ ret' = [op |-> "statistics", raised |-> FALSE, value |-> Statistics(data_points)]
    /\ prev_merge' = NoMerge
    /\ data_points' = <<>>
    /\ stale' = 0
    /\ UNCHANGED <<discarded, validation, db, graph, threads, written>>

GetStatistics ==
    /\ ret' = [op |-> "statistics", raised |-> FALSE, value |-> Statistics(data_points)]
    /\ prev_merge' = NoMerge
    /\ UNCHANGED <<data_points, stale, discarded, validation, db, graph, threads, written>>

----------------------------------------------------------------------------

Init ==
    /\ data_points = <<>>
    /\ ret = [op |-> "init"]
    /\ prev_merge = NoMerge
    /\ stale = 0
    /\ discarded = FALSE
    /\ validation = NoValidation
    /\ db = EmptyDb
    /\ graph = EmptyGraph
    /\ threads = <<>>
    /\ written = <<>>

Next ==
    \/ Ingest
    \/ Merge
    \/ ClearData
    \/ ManagerClearData
    \/ GetStatistics

Spec == Init /\ [][Next]_vars

----------------------------------------------------------------------------
\* Properties of the observation store.

\* The rows of the buffer as merge_data sees them.
Rows == Frame(data_points)

\* The index labels of the rows the last merge_data call returned.
MergedLabels == {ret.value[k].label : k \in DOMAIN ret.value}

\* The members of the group of row i that are at or above min_confidence.
Remaining(i, min_confidence) ==
    {j \in DOMAIN Rows :
        /\ Rows[j].timestamp = Rows[i].timestamp
        /\ Rows[j].item_id = Rows[i].item_id
        /\ Rows[j].confidence >= min_confidence}

\* The members among which the choice is made: the listed-source ones when
\* priority_sources is given and there is one, else all.
Candidates(i, priority_sources, min_confidence) ==
    LET rem == Remaining(i, min_confidence)
        listed == {j \in rem : Rows[j].source \in priority_sources}
    IN IF priority_sources # {} /\ listed # {} THEN listed ELSE rem

\* The candidates that hold the maximum confidence.
TiedBest(i, priority_sources, min_confidence) ==
    LET cand == Candidates(i, priority_sources, min_confidence)
    IN {j \in cand : \A m \in cand : Rows[m].confidence <= Rows[j].confidence}

\* C1: for every reachable buffer and every threshold c, merge(min_confidence
\* = c) returns no observation whose confidence is below c.
C1_MergeRespectsMinConfidence ==
    ret.op = "merge" =>
        \A k \in DOMAIN ret.value :
            ret.value[k].row.confidence >= ret.args.min_confidence

\* A merge that returned a point from a buffer holding a point below c.
C1_Witness ==
    /\ ret.op = "merge"
    /\ ret.value # <<>>
    /\ \E i \in DOMAIN data_points :
          data_points[i].confidence < ret.args.min_confidence

\* The (timestamp, item pair, kind) of a row.
PairKindKey(row) ==
    <<row.timestamp, row.item_id, row.target_item_id, row.type>>

\* C2: merge's output holds at most one point per (timestamp, source item,
\* target item, kind), and two buffered observations that differ in target
\* item or in kind, each at or above min_confidence, both yield their own
\* merged point.
C2_OnePointPerPairAndKind ==
    ret.op = "merge" =>
        /\ \A k1, k2 \in DOMAIN ret.value :
              PairKindKey(ret.value[k1].row) = PairKindKey(ret.value[k2].row) => k1 = k2
        /\ \A i, j \in DOMAIN Rows :
              ( /\ Rows[i].confidence >= ret.args.min_confidence
                /\ Rows[j].confidence >= ret.args.min_confidence
                /\ \/ Rows[i].target_item_id # Rows[j].target_item_id
                   \/ Rows[i].type # Rows[j].type )
              => /\ \E k \in DOMAIN ret.value :
                       PairKindKey(ret.value[k].row) = PairKindKey(Rows[i])
                 /\ \E k \in DOMAIN ret.value :
                       PairKindKey(ret.value[k].row) = PairKindKey(Rows[j])

\* C3: each merge group with a member at or above min_confidence yields one
\* chosen observation; when priority_sources is given and a remaining member
\* is from a listed source, it is a maximum-confidence member among the
\* listed ones, else a maximum-confidence member of the remaining group.
C3_PriorityThenConfidence ==
    ret.op = "merge" =>
        \A i \in DOMAIN Rows :
            LET rem == Remaining(i, ret.args.min_confidence)
                listed == {j \in rem : Rows[j].source \in ret.args.priority_sources}
                chosen == MergedLabels \cap {j \in DOMAIN Rows :
                              /\ Rows[j].timestamp = Rows[i].timestamp
                              /\ Rows[j].item_id = Rows[i].item_id}
            IN rem # {} =>
                 /\ Cardinality(chosen) = 1
                 /\ \A b \in chosen :
                       IF ret.args.priority_sources # {} /\ listed # {}
                       THEN /\ b \in listed
                            /\ \A j \in listed : Rows[j].confidence <= Rows[b].confidence
                       ELSE /\ b \in rem
                            /\ \A j \in rem : Rows[j].confidence <= Rows[b].confidence

\* A merge that chose a listed-source member over a member of higher
\* confidence from a source that is not listed.
C3_Witness ==
    /\ ret.op = "merge"
    /\ ret.args.priority_sources # {}
    /\ \E b \in MergedLabels :
          /\ Rows[b].source \in ret.args.priority_sources
          /\ \E j \in Remaining(b, ret.args.min_confidence) :
                /\ Rows[j].source \notin ret.args.priority_sources
                /\ Rows[j].confidence > Rows[b].confidence

\* C4 as stated: when several candidates of one merge group share the
\* maximum confidence, merge picks the one ingested last.
C4_LastIngestedWins ==
    ret.op = "merge" =>
        \A b \in MergedLabels :
            \A j \in TiedBest(b, ret.args.priority_sources, ret.args.min_confidence) :
                j <= b

\* C4 as amended: when several candidates of one merge group share the
\* maximum confidence, merge picks the one ingested first.
C4_FirstIngestedWins ==
    ret.op = "merge" =>
        \A b \in MergedLabels :
            /\ b \in TiedBest(b, ret.args.priority_sources, ret.args.min_confidence)
            /\ \A j \in TiedBest(b, ret.args.priority_sources, ret.args.min_confidence) :
                  b <= j

\* A merge whose chosen observation shares the maximum confidence with
\* another candidate of its group.
C4_Witness ==
    /\ ret.op = "merge"
    /\ \E b \in MergedLabels :
          Cardinality(TiedBest(b, ret.args.priority_sources, ret.args.min_confidence)) >= 2

\* C5: calling merge twice with the same arguments and no ingest or clear in
\* between returns two identical sequences of merged points.
C5_MergeTwiceSame ==
    (ret.op = "merge" /\ ~prev_merge.none) =>
        /\ ret.raised = prev_merge.raised
        /\ ret.value = prev_merge.points

\* Two merges in a row with equal arguments, returning several points.
C5_Witness ==
    /\ ret.op = "merge"
    /\ ~prev_merge.none
    /\ Len(ret.value) >= 2

\* C6: merge and statistics are read-only: after either call the buffer
\* holds the same observations, in the same order, with the same confidences.
C6_MergeAndStatisticsReadOnly ==
    [][ret'.op \in {"merge", "statistics"} => data_points' = data_points]_vars

\* A statistics call on a buffer that holds observations.
C6_Witness ==
    /\ ret.op = "statistics"
    /\ ret.value.total_points >= 2
    /\ Len(data_points) = ret.value.total_points

\* C7: on an empty buffer merge returns an empty sequence and statistics
\* returns zero counts, no per-source counts and confidence min/mean/max of
\* 0; neither call raises.
C7_EmptyBuffer ==
    data_points = <<>> =>
        /\ ret.op = "merge" => (~ret.raised /\ ret.value = <<>>)
        /\ ret.op = "statistics" =>
              /\ ~ret.raised
              /\ ret.value.total_points = 0
              /\ ret.value.price_points = 0
              /\ ret.value.rate_points = 0
              /\ DOMAIN ret.value.sources = {}
              /\ ret.value.confidence_stats.min = 0
              /\ ret.value.confidence_stats.max = 0
              /\ ret.value.confidence_stats.mean.sum = 0

\* A merge on a buffer that a clear has emptied.
C7_Witness ==
    /\ data_points = <<>>
    /\ discarded
    /\ ret.op = "merge"

\* The fields the kind of a record list requires.
RequiredFields(data_type) ==
    IF data_type = "price"
    THEN {"timestamp", "value", "item_id"}
    ELSE {"timestamp", "value", "source_item_id", "target_item_id"}

AppendsRecords(before, after, call) ==
    /\ Len(after) = Len(before) + call.len
    /\ call.len = Len(call.rows)
    /\ \A i \in 1..Len(before) : after[i] = before[i]
    /\ \A k \in 1..call.len :
          LET o == after[Len(before) + k]
              r == call.rows[k]
          IN /\ o.source = call.source
             /\ o.type = call.data_type
             /\ o.confidence = call.confidence
             /\ o.timestamp = r["timestamp"]
             /\ o.value = r["value"]
             /\ call.data_type = "price" => o.item_id = r["item_id"]
             /\ call.data_type = "exchange_rate" =>
                   /\ o.source_item_id = r["source_item_id"]
                   /\ o.target_item_id = r["target_item_id"]

\* C9 as stated: a successful ingest of n records appends exactly n
\* observations in record order, each carrying the call's source, kind and
\* confidence, leaves the earlier observations unchanged and returns n.
C9_IngestAppendsAndReturnsCount ==
    [][(ret'.op = "ingest" /\ ~ret'.raised)
        => /\ AppendsRecords(data_points, data_points', ret')
           /\ ret'.value = ret'.len]_vars

\* C9 as amended: the same, except that the call returns None.
C9_IngestAppendsAndReturnsNone ==
    [][(ret'.op = "ingest" /\ ~ret'.raised)
        => /\ AppendsRecords(data_points, data_points', ret')
           /\ ret'.value = None]_vars

\* A successful ingest of a record with a confidence other than the default,
\* onto a buffer that already held an observation.
C9_Witness ==
    /\ ret.op = "ingest"
    /\ ~ret.raised
    /\ ret.len >= 1
    /\ ret.confidence # DefaultConfidence
    /\ Len(data_points) > ret.len

\* C10: after clear the buffer is empty, a following merge returns nothing,
\* and no observation ingested before the clear is in a later merge result.
C10_ClearDiscardsBuffer ==
    [][/\ ret'.op \in {"clear", "manager_clear"} => data_points' = <<>>
       /\ (ret.op \in {"clear", "manager_clear"} /\ ret'.op = "merge")
             => ret'.value = <<>>
       /\ ret'.op = "merge" => \A b \in {ret'.value[k].label : k \in DOMAIN ret'.value} :
                                  b > stale']_vars

\* A merge that returns observations ingested after a clear had discarded
\* earlier ones.
C10_Witness ==
    /\ ret.op = "merge"
    /\ discarded
    /\ ret.value # <<>>

----------------------------------------------------------------------------
(***************************************************************************)
(* Quality validator: DataValidationPipeline (src/pipeline/validate.py).   *)
(*                                                                         *)
(* Prices and rates are in hundredths (0.90 is 90, the tolerance 0.01 of   *)
(* the reciprocal check is 100 on a product), timestamps and gaps in days. *)
(* A timestamp cell is a datetime or the text of one; pd.to_datetime turns *)
(* the text into the datetime.                                             *)
(***************************************************************************)

\* Most rows of a frame handed to a validator.
MaxRows == 2

\* float('inf'), the default of max_price and max_rate.
Infinity == 1000000

Datetime(day) == [form |-> "datetime", day |-> day]
Text(day) == [form |-> "str", day |-> day]

\* Input domains of validate_price_data and validate_exchange_rate_data.
ValidatorDays == {1, 2, 4}
ValidatorValues == {NaN, 90, 200}
ValidatorItemIds == {1, 2, NaN}
PriceRows ==
    [item_id : ValidatorItemIds, price : ValidatorValues,
     timestamp : {Datetime(d) : d \in ValidatorDays}]
RateRows ==
    [source_item_id : ItemIds, target_item_id : ItemIds, rate : ValidatorValues,
     timestamp : {Datetime(d) : d \in ValidatorDays}]
\* (min, max) of the accepted values: the defaults, and bounds that some
\* value of the domain meets exactly.
Ranges == {<<0, Infinity>>, <<90, 110>>}
\* max_gap: '1D' (default of the rates) and '7D' (default of the prices).
MaxGaps == {1, 7}

\* Frames of at most n rows.
FramesOver(rows, n) == UNION {[1..k -> rows] : k \in 0..n}

\* Ten daily prices of one item with a single gap of ten days.
TenDailyPrices ==
    [i \in 1..10 |->
        [item_id |-> 1, price |-> 90,
         timestamp |-> Datetime(IF i <= 5 THEN i ELSE i + 9)]]

\* pd.to_datetime on one cell, and on the timestamp column of a frame.
ToDatetime(cell) == Datetime(cell.day)

ConvertTimestamps(frame) ==
    [i \in DOMAIN frame |-> [frame[i] EXCEPT !.timestamp = ToDatetime(@)]]

\* df.isnull().sum().sum(): the null cells of the frame.
MissingValues(frame) ==
    Cardinality({<<i, col>> \in (DOMAIN frame) \X {"item_id", "source_item_id",
                                                   "target_item_id", "price", "rate",
                                                   "value"} :
                    /\ col \in DOMAIN frame[i]
                    /\ frame[i][col] = NaN})

\* ((df[col] < min) | (df[col] > max)).sum(); a comparison with NaN is False.
OutOfRange(frame, col, min, max) ==
    Cardinality({i \in DOMAIN frame :
                    /\ frame[i][col] # NaN
                    /\ (frame[i][col] < min \/ frame[i][col] > max)})

\* A duplicates count that takes every row with a twin, the first included.
Duplicates_KeepNone(frame) ==
    Cardinality({i \in DOMAIN frame : \E j \in DOMAIN frame : j # i /\ frame[j] = frame[i]})

\* df.duplicated().sum(): the rows equal to an earlier row.
Duplicates(frame) ==
    Cardinality({i \in DOMAIN frame : \E j \in 1..(i - 1) : frame[j] = frame[i]})

\* df[col].unique()
Unique(frame, col) == {frame[i][col] : i \in DOMAIN frame}

\* prices[prices['item_id'] == item_id]; NaN equals nothing.
ItemRows(prices, item_id) ==
    SelectSeq(prices, LAMBDA r : item_id # NaN /\ r.item_id = item_id)

\* rates[(rates['source_item_id'] == s) & (rates['target_item_id'] == t)]
PairRows(rates, source_id, target_id) ==
    SelectSeq(rates, LAMBDA r : r.source_item_id = source_id /\ r.target_item_id = target_id)

\* df.sort_values('timestamp')
RECURSIVE SortValues(_)
SortValues(frame) ==
    IF frame = <<>> THEN <<>>
    ELSE LET i == CHOOSE i \in DOMAIN frame :
                    \A j \in DOMAIN frame :
                        \/ frame[i].timestamp.day < frame[j].timestamp.day
                        \/ /\ frame[i].timestamp.day = frame[j].timestamp.day
                           /\ i <= j
             rest == [k \in 1..(Len(frame) - 1) |-> IF k < i THEN frame[k] ELSE frame[k + 1]]
         IN <<frame[i]>> \o SortValues(rest)

\* A gap test that also takes a difference equal to max_gap.
Gaps_Inclusive(sorted, max_gap) ==
    {k \in 2..Len(sorted) :
        sorted[k].timestamp.day - sorted[k - 1].timestamp.day >= max_gap}

\* sorted['timestamp'].diff() > pd.Timedelta(max_gap): the positions whose
\* difference to the row before exceeds max_gap (the first has none).
Gaps(sorted, max_gap) ==
    {k \in 2..Len(sorted) :
        sorted[k].timestamp.day - sorted[k - 1].timestamp.day > max_gap}

\* large_gaps of validate_price_data: summed over the items.
PriceLargeGaps(prices, max_gap) ==
    Cardinality(UNION {{<<item_id, k>> :
                            k \in Gaps(SortValues(ItemRows(prices, item_id)), max_gap)} :
                       item_id \in Unique(prices, "item_id")})

\* large_gaps of validate_exchange_rate_data: summed over the pairs of a
\* source and a target that have rows.
RateLargeGaps(rates, max_gap) ==
    Cardinality(UNION {{<<pair, k>> :
                            k \in Gaps(SortValues(PairRows(rates, pair[1], pair[2])), max_gap)} :
                       pair \in Unique(rates, "source_item_id") \X Unique(rates, "target_item_id")})

\* A report whose verdict also asks for no large gap.
Report_GapsFail(total, missing, out_of_range, duplicates, large_gaps) ==
    LET valid == total - missing - out_of_range - duplicates
    IN [total_records |-> total,
        valid_records |-> valid - large_gaps,
        invalid_records |-> total - valid,
        missing_values |-> missing,
        out_of_range |-> out_of_range,
        duplicates |-> duplicates,
        large_gaps |-> large_gaps,
        validation_passed |-> (valid > 0 /\ total - valid = 0 /\ large_gaps = 0)]

\* validation_results of validate_price_data and
\* validate_exchange_rate_data, from the counts.
Report(total, missing, out_of_range, duplicates, large_gaps) ==
    LET valid == total - missing - out_of_range - duplicates
        invalid == total - valid
    IN [total_records |-> total,
        valid_records |-> valid,
        invalid_records |-> invalid,
        missing_values |-> missing,
        out_of_range |-> out_of_range,
        duplicates |-> duplicates,
        large_gaps |-> large_gaps,
        validation_passed |-> (valid > 0 /\ invalid = 0)]

\* What validate_price_data returns for the frame, its timestamps converted.
PriceReport(prices, min_price, max_price, max_gap) ==
    Report(Len(prices),
           MissingValues(prices),
           OutOfRange(prices, "price", min_price, max_price),
           Duplicates(prices),
           PriceLargeGaps(prices, max_gap))

\* What validate_exchange_rate_data returns for the frame, its timestamps
\* converted.
RateReport(rates, min_rate, max_rate, max_gap) ==
    Report(Len(rates),
           MissingValues(rates),
           OutOfRange(rates, "rate", min_rate, max_rate),
           Duplicates(rates),
           RateLargeGaps(rates, max_gap))

\* The reports are produced by the validator's methods alone; what they
\* leave alone is the rest of the program.
ValidatorFrame ==
    <<data_points, ret, prev_merge, stale, discarded, db, graph, threads, written>>

\* A validate_price_data that also stores the frame's rows in the database.
ValidatePriceData_Storing(min_price, max_price, max_gap) ==
    LET prices == ConvertTimestamps(validation.prices)
    IN /\ validation' =
            [validation EXCEPT
                !.prices = prices,
                !.call = [op |-> "validate_price_data",
                          args |-> <<min_price, max_price, max_gap>>],
                !.report = PriceReport(prices, min_price, max_price, max_gap)]
       /\ db' = [db EXCEPT !.prices = @ \o prices]
       /\ UNCHANGED <<data_points, ret, prev_merge, stale, discarded, graph, threads, written>>

\* One call of validate_price_data on the caller's price frame: the frame's
\* timestamp column is converted in place, then the counts are taken.
ValidatePriceData(min_price, max_price, max_gap) ==
    LET prices == ConvertTimestamps(validation.prices)
    IN /\ validation' =
            [validation EXCEPT
                !.prices = prices,
                !.call = [op |-> "validate_price_data",
                          args |-> <<min_price, max_price, max_gap>>],
                !.report = PriceReport(prices, min_price, max_price, max_gap)]
       /\ UNCHANGED ValidatorFrame

\* One call of validate_exchange_rate_data on the caller's rate frame.
ValidateExchangeRateData(min_rate, max_rate, max_gap) ==
    LET rates == ConvertTimestamps(validation.rates)
    IN /\ validation' =
            [validation EXCEPT
                !.rates = rates,
                !.call = [op |-> "validate_exchange_rate_data",
                          args |-> <<min_rate, max_rate, max_gap>>],
                !.report = RateReport(rates, min_rate, max_rate, max_gap)]
       /\ UNCHANGED ValidatorFrame

ValidatePrices ==
    \E range \in Ranges, max_gap \in MaxGaps :
        ValidatePriceData(range[1], range[2], max_gap)

ValidateRates ==
    \E range \in Ranges, max_gap \in MaxGaps :
        ValidateExchangeRateData(range[1], range[2], max_gap)

----------------------------------------------------------------------------
\* validate_data_consistency

\* 1.0 and 0.01 on the scale of a product of two rates in hundredths.
UnitProduct == 10000
Tolerance == 100

\* Input domains of validate_data_consistency and
\* validate_data_completeness.
CrossPriceRows ==
    [item_id : ItemIds, price : {90},
     timestamp : {Datetime(1), Datetime(2), Text(1)}]
CrossRateRows ==
    [source_item_id : ItemIds, target_item_id : ItemIds, rate : {90, 110, 200},
     timestamp : {Datetime(1), Datetime(2)}]
\* (start_date, end_date) and frequency ('1D') of the expected series.
Windows == {<<1, 2>>, <<2, 2>>}
Frequencies == {1}

Abs(x) == IF x < 0 THEN -x ELSE x

\* A reciprocal test with a tolerance of 0.2.
Deviates_Loose(direct, reverse) ==
    Abs(direct.rate * reverse.rate - UnitProduct) > 20 * Tolerance

\* abs(direct['rate'] * reverse['rate'] - 1.0) > 0.01
Deviates(direct, reverse) ==
    Abs(direct.rate * reverse.rate - UnitProduct) > Tolerance

\* The loop of validate_data_consistency: for every source and target of
\* the frame whose direct rows and reverse rows both exist, every direct row
\* is taken with every reverse row.
InconsistentRates(rates) ==
    Cardinality(
        UNION {{<<pair, i, j>> :
                    <<i, j>> \in {ij \in (DOMAIN PairRows(rates, pair[1], pair[2]))
                                          \X (DOMAIN PairRows(rates, pair[2], pair[1])) :
                                    Deviates(PairRows(rates, pair[1], pair[2])[ij[1]],
                                             PairRows(rates, pair[2], pair[1])[ij[2]])}} :
               pair \in Unique(rates, "source_item_id") \X Unique(rates, "target_item_id")})

\* A count of the missing items that takes the items of the prices that no
\* rate refers to.
MissingItems_Unrated(prices, rates) ==
    LET price_items == Unique(prices, "item_id")
        rate_items == Unique(rates, "source_item_id") \cup Unique(rates, "target_item_id")
    IN Cardinality(price_items \ rate_items)

\* len(all_items) - len(price_items)
MissingItems(prices, rates) ==
    LET price_items == Unique(prices, "item_id")
        all_items == price_items \cup Unique(rates, "source_item_id")
                                 \cup Unique(rates, "target_item_id")
    IN Cardinality(all_items) - Cardinality(price_items)

\* What validate_data_consistency returns.
ConsistencyReport(prices, rates) ==
    LET missing_items == MissingItems(prices, rates)
        inconsistent_rates == InconsistentRates(rates)
    IN [total_items |-> Cardinality(Unique(prices, "item_id")),
        total_rate_pairs |->
            Cardinality({<<rates[i].source_item_id, rates[i].target_item_id>> :
                            i \in DOMAIN rates}),
        missing_items |-> missing_items,
        inconsistent_rates |-> inconsistent_rates,
        validation_passed |-> (missing_items = 0 /\ inconsistent_rates = 0)]

\* One call of validate_data_consistency; it reads both frames as they are.
ValidateDataConsistency ==
    /\ validation' =
            [validation EXCEPT
                !.call = [op |-> "validate_data_consistency", args |-> <<>>],
                !.report = ConsistencyReport(validation.prices, validation.rates)]
    /\ UNCHANGED ValidatorFrame

----------------------------------------------------------------------------
\* validate_data_completeness

\* pd.date_range(start=start_date, end=end_date, freq=frequency)
DateRange(start_date, end_date, frequency) ==
    {Datetime(start_date + k * frequency) :
        k \in {k \in 0..(end_date - start_date) : start_date + k * frequency <= end_date}}

\* set(rows['timestamp'])
Dates(rows) == {rows[i].timestamp : i \in DOMAIN rows}

\* missing_price_periods: summed over the items of the prices.
MissingPricePeriods(prices, date_range) ==
    Cardinality(UNION {{<<item_id, d>> : d \in date_range \ Dates(ItemRows(prices, item_id))} :
                       item_id \in Unique(prices, "item_id")})

\* missing_rate_periods: summed over every source of the frame taken with
\* every target of the frame, whether or not the two have a row together.
MissingRatePeriods(rates, date_range) ==
    Cardinality(UNION {{<<pair, d>> :
                            d \in date_range \ Dates(PairRows(rates, pair[1], pair[2]))} :
                       pair \in Unique(rates, "source_item_id") \X Unique(rates, "target_item_id")})

\* What validate_data_completeness returns for the frames, their timestamps
\* converted.
CompletenessReport(prices, rates, start_date, end_date, frequency) ==
    LET date_range == DateRange(start_date, end_date, frequency)
        missing_price_periods == MissingPricePeriods(prices, date_range)
        missing_rate_periods == MissingRatePeriods(rates, date_range)
    IN [total_periods |-> Cardinality(date_range),
        missing_price_periods |-> missing_price_periods,
        missing_rate_periods |-> missing_rate_periods,
        validation_passed |-> (missing_price_periods = 0 /\ missing_rate_periods = 0)]

\* One call of validate_data_completeness: both frames' timestamp columns
\* are converted in place, then the periods are counted.
ValidateDataCompleteness(start_date, end_date, frequency) ==
    LET prices == ConvertTimestamps(validation.prices)
        rates == ConvertTimestamps(validation.rates)
    IN /\ validation' =
            [validation EXCEPT
                !.prices = prices,
                !.rates = rates,
                !.call = [op |-> "validate_data_completeness",
                          args |-> <<start_date, end_date, frequency>>],
                !.report = CompletenessReport(prices, rates, start_date, end_date, frequency)]
       /\ UNCHANGED ValidatorFrame

ValidateCompleteness ==
    \E window \in Windows, frequency \in Frequencies :
        ValidateDataCompleteness(window[1], window[2], frequency)

----------------------------------------------------------------------------
\* The validator's specifications.

\* A buffer and a database that hold rows while the validator runs.
BufferedPoint == DataPoint(1, 1, 1, "a", DefaultConfidence, "price", None, None)
StoredDb ==
    [items |-> {1},
     prices |-> <<[item_id |-> 1, price |-> 90, timestamp |-> 1, source |-> "a",
                   confidence |-> DefaultConfidence]>>,
     rates |-> <<>>]

InitAround ==
    /\ data_points = <<BufferedPoint>>
    /\ ret = [op |-> "init"]
    /\ prev_merge = NoMerge
    /\ stale = 0
    /\ discarded = FALSE
    /\ db = StoredDb
    /\ graph = EmptyGraph
    /\ threads = <<>>
    /\ written = <<>>

\* A caller holds a batch of prices or a batch of rates.
InitValidate ==
    /\ InitAround
    /\ validation \in
        {[NoValidation EXCEPT !.prices = frame] :
            frame \in FramesOver(PriceRows, MaxRows) \cup {TenDailyPrices}}
        \cup
        {[NoValidation EXCEPT !.rates = frame] : frame \in FramesOver(RateRows, MaxRows)}

NextValidate ==
    \/ ValidatePrices
    \/ ValidateRates

SpecValidate == InitValidate /\ [][NextValidate]_vars

\* A caller holds prices and rates of the same window, MaxRows rows in all.
InitCross ==
    /\ InitAround
    /\ validation \in
        {[NoValidation EXCEPT !.prices = prices, !.rates = rates] :
            <<prices, rates>> \in
                {fr \in FramesOver(CrossPriceRows, MaxRows) \X FramesOver(CrossRateRows, MaxRows) :
                    Len(fr[1]) + Len(fr[2]) <= MaxRows}}

NextCross ==
    \/ ValidatePrices
    \/ ValidateRates
    \/ ValidateDataConsistency
    \/ ValidateCompleteness

SpecCross == InitCross /\ [][NextCross]_vars

----------------------------------------------------------------------------
\* Properties of the quality validator.

\* The last call was validate_price_data or validate_exchange_rate_data.
FrameValidated ==
    validation.call.op \in {"validate_price_data", "validate_exchange_rate_data"}

\* The frame the last call validated.
ValidatedFrame ==
    IF validation.call.op = "validate_price_data" THEN validation.prices
    ELSE validation.rates

\* C11: in every report of validate_price_data and
\* validate_exchange_rate_data, valid_records is total_records minus
\* missing_values, out_of_range and duplicates, invalid_records is
\* total_records minus valid_records, and validation_passed holds exactly
\* when valid_records > 0 and invalid_records = 0; large_gaps enters neither.
C11_ValidCountsAndVerdict ==
    FrameValidated =>
        LET r == validation.report
        IN /\ r.total_records = Len(ValidatedFrame)
           /\ r.valid_records =
                r.total_records - r.missing_values - r.out_of_range - r.duplicates
           /\ r.invalid_records = r.total_records - r.valid_records
           /\ r.validation_passed = (r.valid_records > 0 /\ r.invalid_records = 0)

\* A batch of rates with a large gap and nothing else passes.
C11_Witness ==
    /\ validation.call.op = "validate_exchange_rate_data"
    /\ validation.report.large_gaps > 0
    /\ validation.report.valid_records = validation.report.total_records
    /\ validation.report.validation_passed

\* What groups the rows for the gaps: the item of a price, the source and
\* target of a rate; a price without item is in no group.
GapGroup(row) ==
    IF "item_id" \in DOMAIN row
    THEN <<row.item_id>>
    ELSE <<row.source_item_id, row.target_item_id>>

Grouped(row) == "item_id" \in DOMAIN row => row.item_id # NaN

\* Row i is the first of its group at its timestamp, its group has earlier
\* rows, and the latest of them is more than max_gap before it.
FollowsLargeGap(frame, i, max_gap) ==
    LET earlier == {j \in DOMAIN frame :
                        /\ GapGroup(frame[j]) = GapGroup(frame[i])
                        /\ frame[j].timestamp.day < frame[i].timestamp.day}
    IN /\ Grouped(frame[i])
       /\ \A j \in 1..(i - 1) :
            GapGroup(frame[j]) = GapGroup(frame[i]) => frame[j].timestamp # frame[i].timestamp
       /\ earlier # {}
       /\ \A j \in earlier : frame[i].timestamp.day - frame[j].timestamp.day > max_gap

\* C12: large_gaps is the number of records that follow, within their own
\* item (prices) or (source, target) pair (rates), the record before them in
\* time by strictly more than max_gap; ten daily points with one gap of ten
\* days and max_gap of seven days give large_gaps = 1.
C12_LargeGapsPerItemStrict ==
    FrameValidated =>
        /\ validation.report.large_gaps =
                Cardinality({i \in DOMAIN ValidatedFrame :
                                FollowsLargeGap(ValidatedFrame, i, validation.call.args[3])})
        /\ (/\ validation.call.op = "validate_price_data"
            /\ validation.prices = TenDailyPrices
            /\ validation.call.args[3] = 7)
                => validation.report.large_gaps = 1

C12_Witness ==
    /\ validation.call.op = "validate_price_data"
    /\ validation.prices = TenDailyPrices
    /\ validation.call.args[3] = 7
    /\ validation.report.large_gaps = 1

\* Rates i and j of the frame are reciprocal: one is A->B, the other B->A.
Reciprocal(rates, i, j) ==
    /\ rates[i].source_item_id = rates[j].target_item_id
    /\ rates[i].target_item_id = rates[j].source_item_id

RatePair(source_id, target_id, rate) ==
    [source_item_id |-> source_id, target_item_id |-> target_id, rate |-> rate]

\* The rows of the frame without their timestamps.
Quotes(rates) ==
    [i \in DOMAIN rates |->
        RatePair(rates[i].source_item_id, rates[i].target_item_id, rates[i].rate)]

\* C13: validate_data_consistency reports inconsistent_rates = 0 exactly
\* when every two reciprocal rates of the batch have a product within 0.01
\* of 1; 0.90 with 1.10 is not flagged, 0.90 with 2.00 is.
C13_ReciprocalTolerance ==
    validation.call.op = "validate_data_consistency" =>
        LET rates == validation.rates
        IN /\ (validation.report.inconsistent_rates = 0) =
                (\A i, j \in DOMAIN rates :
                    Reciprocal(rates, i, j) =>
                        Abs(rates[i].rate * rates[j].rate - 10000) <= 100)
           /\ Quotes(rates) = <<RatePair(1, 2, 90), RatePair(2, 1, 110)>>
                => validation.report.inconsistent_rates = 0
           /\ Quotes(rates) = <<RatePair(1, 2, 90), RatePair(2, 1, 200)>>
                => validation.report.inconsistent_rates > 0

C13_Witness ==
    /\ validation.call.op = "validate_data_consistency"
    /\ Quotes(validation.rates) = <<RatePair(1, 2, 90), RatePair(2, 1, 110)>>
    /\ validation.report.inconsistent_rates = 0

\* C14: missing_items is the number of distinct items that occur in the
\* rates, as source or as target, and in no price record, and the
\* consistency check passes exactly when missing_items = 0 and
\* inconsistent_rates = 0.
C14_MissingItems ==
    validation.call.op = "validate_data_consistency" =>
        LET prices == validation.prices
            rates == validation.rates
            r == validation.report
        IN /\ r.missing_items =
                Cardinality({item \in ItemIds :
                                /\ \E i \in DOMAIN rates :
                                        \/ rates[i].source_item_id = item
                                        \/ rates[i].target_item_id = item
                                /\ \A i \in DOMAIN prices : prices[i].item_id # item})
           /\ r.validation_passed = (r.missing_items = 0 /\ r.inconsistent_rates = 0)

C14_Witness ==
    /\ validation.call.op = "validate_data_consistency"
    /\ validation.prices # <<>>
    /\ validation.report.missing_items = 1
    /\ validation.report.inconsistent_rates = 0
    /\ ~validation.report.validation_passed

\* The expected timestamps of the window that no row of rows has.
MissingOf(rows, window) ==
    {d \in window[1]..window[2] : \A i \in DOMAIN rows : rows[i].timestamp.day # d}

\* C15: missing_price_periods sums, over the items of the prices, the
\* expected timestamps without a record of the item; missing_rate_periods
\* sums the same over the (source, target) pairs that have a rate record, a
\* pair without one adding nothing; the check passes exactly when both are 0.
C15_MissingPeriodsPerOccurringPair ==
    validation.call.op = "validate_data_completeness" =>
        LET prices == validation.prices
            rates == validation.rates
            window == validation.call.args
            r == validation.report
            occurring == {<<rates[i].source_item_id, rates[i].target_item_id>> :
                            i \in DOMAIN rates}
        IN /\ r.missing_price_periods =
                Cardinality({<<item, d>> \in ItemIds \X (window[1]..window[2]) :
                                /\ \E i \in DOMAIN prices : prices[i].item_id = item
                                /\ d \in MissingOf(ItemRows(prices, item), window)})
           /\ r.missing_rate_periods =
                Cardinality({<<pair, d>> \in occurring \X (window[1]..window[2]) :
                                d \in MissingOf(PairRows(rates, pair[1], pair[2]), window)})
           /\ r.validation_passed =
                (r.missing_price_periods = 0 /\ r.missing_rate_periods = 0)

\* What the call would return if it were made again now.
ReportOf(call, prices, rates) ==
    IF call.op = "validate_price_data"
    THEN PriceReport(ConvertTimestamps(prices), call.args[1], call.args[2], call.args[3])
    ELSE IF call.op = "validate_exchange_rate_data"
    THEN RateReport(ConvertTimestamps(rates), call.args[1], call.args[2], call.args[3])
    ELSE IF call.op = "validate_data_consistency"
    THEN ConsistencyReport(prices, rates)
    ELSE CompletenessReport(ConvertTimestamps(prices), ConvertTimestamps(rates),
                            call.args[1], call.args[2], call.args[3])

\* C16: a call of a validator changes neither the ingestion buffer nor the
\* stored rows, and the same call made again on the same frames returns the
\* report it has just returned.
C16_ValidatorsPure ==
    [][validation'.call.op # "none" =>
            /\ data_points' = data_points
            /\ db' = db
            /\ ReportOf(validation'.call, validation'.prices, validation'.rates)
                    = validation'.report]_vars

\* A completeness check has run on prices and rates, next to a buffer and a
\* database that hold rows.
C16_Witness ==
    /\ validation.call.op = "validate_data_completeness"
    /\ validation.prices # <<>>
    /\ validation.rates # <<>>
    /\ data_points = <<BufferedPoint>>
    /\ db = StoredDb

----------------------------------------------------------------------------
(***************************************************************************)
(* Graph builder: ValueGraph (src/models/graph_structure.py).              *)
(*                                                                         *)
(* graph.nodes is the node set of self.graph, graph.edges its edges, one   *)
(* record per edge with the edge's attributes, graph.attributes the        *)
(* attributes that _compute_node_attributes gives the nodes, and           *)
(* graph.timestamp is self.timestamp. The rows of db.prices and db.rates   *)
(* stand in the order in which a query returns them.                       *)
(***************************************************************************)

\* The base node 'SVU'; the items have the ids 1, 2, ...
SVU == 0

\* Input domains of build_graph.
ItemTables == {{1}, {1, 2, 3}}
GraphDays == {1, 2}
GraphWindows == {<<1, 1>>, <<1, 2>>, <<2, 2>>}
GraphThresholds == {DefaultMinConfidence, DefaultConfidence}
StoredPrices ==
    [item_id : ItemIds, price : {90}, timestamp : GraphDays, source : {"a"},
     confidence : Confidences]
StoredRates ==
    [source_item_id : ItemIds, target_item_id : ItemIds, rate : {110},
     timestamp : GraphDays, source : {"a"}, confidence : Confidences]

\* A window test that has no end.
Between_OpenEnded(timestamp, start_date, end_date) ==
    start_date <= timestamp

\* column.between(start_date, end_date): both ends belong to the window.
Between(timestamp, start_date, end_date) ==
    start_date <= timestamp /\ timestamp <= end_date

\* query(...).filter(timestamp.between(start_date, end_date),
\*                   confidence >= min_confidence).all()
Qualifying(rows, start_date, end_date, min_confidence) ==
    SelectSeq(rows, LAMBDA r : /\ Between(r.timestamp, start_date, end_date)
                               /\ r.confidence >= min_confidence)

\* A clear that keeps the edges.
Cleared_KeepEdges(g) == [g EXCEPT !.attributes = <<>>]

\* self.graph.clear(); self.timestamp stays.
Cleared(g) == [g EXCEPT !.nodes = {}, !.edges = {}, !.attributes = <<>>]

\* A build that adds no node for the items.
AddNodes_Skipped(g, items) == g

\* self.graph.add_node(item.id, ...) for every item.
AddNodes(g, items) == [g EXCEPT !.nodes = @ \cup items]

\* DiGraph.add_edge(u, v, **attributes): the end points become nodes, and
\* an edge u -> v that exists already gets the new attributes.
AddEdge(g, edge) ==
    [g EXCEPT !.nodes = @ \cup {edge.u, edge.v},
              !.edges = {e \in @ : ~(e.u = edge.u /\ e.v = edge.v)} \cup {edge}]

PriceEdge(price) ==
    [u |-> SVU, v |-> price.item_id, weight |-> price.price,
     timestamp |-> price.timestamp, source |-> price.source,
     confidence |-> price.confidence, type |-> "price"]

RateEdge(rate) ==
    [u |-> rate.source_item_id, v |-> rate.target_item_id, weight |-> rate.rate,
     timestamp |-> rate.timestamp, source |-> rate.source,
     confidence |-> rate.confidence, type |-> "exchange_rate"]

\* for price in prices: self.graph.add_edge('SVU', price.item_id, ...)
RECURSIVE AddPriceEdges(_, _)
AddPriceEdges(g, prices) ==
    IF prices = <<>> THEN g
    ELSE AddPriceEdges(AddEdge(g, PriceEdge(Head(prices))), Tail(prices))

\* for rate in rates: self.graph.add_edge(rate.source_item_id, ...)
RECURSIVE AddRateEdges(_, _)
AddRateEdges(g, rates) ==
    IF rates = <<>> THEN g
    ELSE AddRateEdges(AddEdge(g, RateEdge(Head(rates))), Tail(rates))

\* in_edges + out_edges of a node: a loop stands in both.
InEdges(g, node) == {e \in g.edges : e.v = node}
OutEdges(g, node) == {e \in g.edges : e.u = node}

RECURSIVE SumWeights(_)
SumWeights(edges) ==
    IF edges = {} THEN 0
    ELSE LET e == CHOOSE e \in edges : TRUE
         IN e.weight + SumWeights(edges \ {e})

RECURSIVE SumSquares(_)
SumSquares(edges) ==
    IF edges = {} THEN 0
    ELSE LET e == CHOOSE e \in edges : TRUE
         IN e.weight * e.weight + SumSquares(edges \ {e})

\* pd.Series(prices).std() / pd.Series(prices).mean() for the weights of
\* in_edges + out_edges, kept as the square of the quotient, num / den:
\* the sample variance n*sum(x^2) - sum(x)^2 over n*(n - 1), divided by the
\* squared mean. One weight gives 0 / 0, pandas' NaN; no weight gives 0.0.
Volatility(g, node) ==
    LET n == Cardinality(InEdges(g, node)) + Cardinality(OutEdges(g, node))
        sum == SumWeights(InEdges(g, node)) + SumWeights(OutEdges(g, node))
        squares == SumSquares(InEdges(g, node)) + SumSquares(OutEdges(g, node))
    IN IF n = 0 THEN [num |-> 0, den |-> 1]
       ELSE [num |-> n * (n * squares - sum * sum), den |-> (n - 1) * sum * sum]

\* _compute_node_attributes
ComputeNodeAttributes(g) ==
    [g EXCEPT !.attributes =
        [node \in g.nodes |->
            [volatility |-> Volatility(g, node),
             in_degree |-> Cardinality(InEdges(g, node)),
             out_degree |-> Cardinality(OutEdges(g, node))]]]

\* The graph at the end of a build_graph that raised nothing.
Built(g, database, start_date, end_date, min_confidence) ==
    LET prices == Qualifying(database.prices, start_date, end_date, min_confidence)
        rates == Qualifying(database.rates, start_date, end_date, min_confidence)
        edged == AddRateEdges(AddPriceEdges(AddNodes(Cleared(g), database.items), prices), rates)
    IN [ComputeNodeAttributes(edged) EXCEPT !.timestamp = end_date]

GraphFrame ==
    <<data_points, prev_merge, stale, discarded, validation, db, threads, written>>

\* One call of build_graph that returns; ret.replaced tells whether the call
\* took an edge of the graph it found.
BuildGraph(start_date, end_date, min_confidence) ==
    /\ graph' = Built(graph, db, start_date, end_date, min_confidence)
    /\ ret' = [op |-> "build_graph", start_date |-> start_date, end_date |-> end_date,
               min_confidence |-> min_confidence, raised |-> FALSE,
               replaced |-> (graph.edges \ graph'.edges # {})]
    /\ UNCHANGED GraphFrame

\* One call of build_graph in which a query raises, whatever the
\* arguments: the items' query (the graph is cleared), or the prices' or
\* rates' query (the items are nodes by then); the exception is raised
\* again and self.timestamp stays.
BuildGraphRaises(query) ==
    /\ graph' = IF query = "Item" THEN Cleared(graph)
                ELSE AddNodes(Cleared(graph), db.items)
    /\ ret' = [op |-> "build_graph", start_date |-> None, end_date |-> None,
               min_confidence |-> None, raised |-> TRUE,
               replaced |-> (graph.edges \ graph'.edges # {})]
    /\ UNCHANGED GraphFrame

Build ==
    \E window \in GraphWindows, min_confidence \in GraphThresholds :
        BuildGraph(window[1], window[2], min_confidence)

BuildRaises ==
    \E query \in {"Item", "Price", "ExchangeRate"} : BuildGraphRaises(query)

\* A new ValueGraph on a database of MaxRows observations in all.
InitGraph ==
    /\ data_points = <<>>
    /\ ret = [op |-> "init"]
    /\ prev_merge = NoMerge
    /\ stale = 0
    /\ discarded = FALSE
    /\ validation = NoValidation
    /\ graph = EmptyGraph
    /\ threads = <<>>
    /\ written = <<>>
    /\ db \in {[items |-> items, prices |-> rows[1], rates |-> rows[2]] :
                items \in ItemTables,
                rows \in {pr \in FramesOver(StoredPrices, MaxRows) \X FramesOver(StoredRates, MaxRows) :
                            Len(pr[1]) + Len(pr[2]) <= MaxRows}}

NextGraph ==
    \/ Build
    \/ BuildRaises

SpecGraph == InitGraph /\ [][NextGraph]_vars

----------------------------------------------------------------------------
\* Properties of the graph builder.

\* The last call was a build_graph that returned.
GraphBuilt == ret.op = "build_graph" /\ ~ret.raised

\* The observation lies in the window of the last build and has its
\* confidence.
InLastWindow(row) ==
    /\ ret.start_date <= row.timestamp
    /\ row.timestamp <= ret.end_date
    /\ row.confidence >= ret.min_confidence

QualifyingPrices == {i \in DOMAIN db.prices : InLastWindow(db.prices[i])}
QualifyingRates == {i \in DOMAIN db.rates : InLastWindow(db.rates[i])}

\* The edge carries the observation: a price from the base node to the
\* priced item, a rate from its source to its target.
FromPrice(e, price) ==
    /\ e.type = "price"
    /\ e.u = SVU /\ e.v = price.item_id
    /\ e.weight = price.price /\ e.timestamp = price.timestamp
    /\ e.source = price.source /\ e.confidence = price.confidence

FromRate(e, rate) ==
    /\ e.type = "exchange_rate"
    /\ e.u = rate.source_item_id /\ e.v = rate.target_item_id
    /\ e.weight = rate.rate /\ e.timestamp = rate.timestamp
    /\ e.source = rate.source /\ e.confidence = rate.confidence

\* C17: every edge of a built graph comes from an observation whose
\* timestamp is within [window_start, window_end], both ends included, and
\* whose confidence is at least min_confidence; a price edge goes from the
\* base node to the priced item, a rate edge from source to target.
C17_EdgesFromQualifyingObservations ==
    GraphBuilt =>
        \A e \in graph.edges :
            \/ \E i \in QualifyingPrices : FromPrice(e, db.prices[i])
            \/ \E i \in QualifyingRates : FromRate(e, db.rates[i])

\* A built graph with a price edge and a rate edge.
C17_Witness ==
    /\ GraphBuilt
    /\ \E e \in graph.edges : e.type = "price"
    /\ \E e \in graph.edges : e.type = "exchange_rate"

\* C18: a build adds one edge per qualifying observation, without
\* deduplication: k qualifying observations of one pair or item give k edges.
C18_OneEdgePerObservation ==
    GraphBuilt =>
        Cardinality(graph.edges) = Cardinality(QualifyingPrices) + Cardinality(QualifyingRates)

\* The items that the qualifying observations refer to, with the base node
\* when one of them is a price.
ReferencedNodes ==
    {db.prices[i].item_id : i \in QualifyingPrices}
    \cup {db.rates[i].source_item_id : i \in QualifyingRates}
    \cup {db.rates[i].target_item_id : i \in QualifyingRates}
    \cup (IF QualifyingPrices # {} THEN {SVU} ELSE {})

\* C19 as stated: the nodes of a built graph are exactly the items that the
\* qualifying observations refer to (with the base node when there is a
\* price edge); an item without qualifying observation is no node.
C19_NodesAreReferencedItems ==
    GraphBuilt => graph.nodes = ReferencedNodes

\* C19: the nodes of a built graph are every item of the item table, whether
\* or not an observation refers to it, and the items that the qualifying
\* observations refer to (with the base node when there is a price edge).
C19_NodesAreItemsAndReferenced ==
    GraphBuilt => graph.nodes = db.items \cup ReferencedNodes

\* A built graph with an item that no qualifying observation refers to and
\* with an observed item that the item table lacks.
C19_Witness ==
    /\ GraphBuilt
    /\ \E item \in db.items : item \notin ReferencedNodes
    /\ \E node \in graph.nodes : node \notin db.items /\ node # SVU

\* C20: after any sequence of build_graph calls that returned, the edges and
\* the nodes' derived attributes are those of the last call's window alone:
\* the graph is the one a new ValueGraph builds with the last arguments.
C20_LastBuildOnly ==
    GraphBuilt =>
        /\ graph = Built(EmptyGraph, db, ret.start_date, ret.end_date, ret.min_confidence)
        /\ \A e \in graph.edges :
                /\ ret.start_date <= e.timestamp
                /\ e.timestamp <= ret.end_date
        /\ \A node \in graph.nodes :
                /\ graph.attributes[node].in_degree
                        = Cardinality({e \in graph.edges : e.v = node})
                /\ graph.attributes[node].out_degree
                        = Cardinality({e \in graph.edges : e.u = node})

\* A build has replaced the edges of an earlier build.
C20_Witness ==
    /\ GraphBuilt
    /\ ret.replaced
    /\ graph.edges # {}

\* The edges that touch the node, in either direction.
IncidentEdges(node) == {e \in graph.edges : e.u = node \/ e.v = node}

\* The quotient num / den is the number 0.0 (0 / 0 is NaN).
IsZero(quotient) == quotient.num = 0 /\ quotient.den # 0

C27_ValidWithinTotal ==
    FrameValidated =>
        /\ 0 <= validation.report.valid_records
        /\ validation.report.valid_records <= validation.report.total_records
        /\ validation.report.invalid_records <= validation.report.total_records

----------------------------------------------------------------------------
\* get_shortest_path

\* Input domains of get_shortest_path, and the databases it is explored on:
\* observations of one day, MaxRows in all.
PathNodes == {SVU, 1, 2, 3}
PathWeights == {"confidence"}
PathPrices ==
    [item_id : ItemIds, price : {90}, timestamp : {1}, source : {"a"},
     confidence : Confidences]
PathRates ==
    [source_item_id : ItemIds, target_item_id : ItemIds, rate : {110},
     timestamp : {1}, source : {"a"}, confidence : Confidences]

\* The sequences of distinct nodes from source to target whose consecutive
\* nodes are joined by an edge; a node alone is the path to itself.
DirectedPaths(g, source_id, target_id) ==
    {path \in UNION {[1..k -> g.nodes] : k \in 1..Cardinality(g.nodes)} :
        /\ path[1] = source_id
        /\ path[Len(path)] = target_id
        /\ \A i, j \in DOMAIN path : i # j => path[i] # path[j]
        /\ \A i \in 1..(Len(path) - 1) :
                \E e \in g.edges : e.u = path[i] /\ e.v = path[i + 1]}

\* The length of a path under the edge attribute weight.
RECURSIVE PathLength(_, _, _)
PathLength(g, path, weight) ==
    IF Len(path) < 2 THEN 0
    ELSE LET e == CHOOSE e \in g.edges : e.u = path[1] /\ e.v = path[2]
         IN e[weight] + PathLength(g, Tail(path), weight)

\* What nx.shortest_path(self.graph, source, target, weight) can do under
\* the except of get_shortest_path: NodeNotFound, which the except lets
\* through, when the source is no node; when only the target is no node,
\* NodeNotFound or NetworkXNoPath, as the installed networkx has it;
\* NetworkXNoPath, turned into [], when no path reaches the target; else a
\* path of least length.
ShortestPathOutcomes(g, source_id, target_id, weight) ==
    LET paths == DirectedPaths(g, source_id, target_id)
    IN IF source_id \notin g.nodes
       THEN {[raised |-> TRUE, value |-> <<>>]}
       ELSE IF target_id \notin g.nodes
       THEN {[raised |-> TRUE, value |-> <<>>], [raised |-> FALSE, value |-> <<>>]}
       ELSE IF paths = {}
       THEN {[raised |-> FALSE, value |-> <<>>]}
       ELSE {[raised |-> FALSE, value |-> path] :
                path \in {p \in paths :
                            \A q \in paths :
                                PathLength(g, p, weight) <= PathLength(g, q, weight)}}

\* One call of get_shortest_path.
GetShortestPath(source_id, target_id, weight) ==
    /\ \E out \in ShortestPathOutcomes(graph, source_id, target_id, weight) :
            ret' = [op |-> "get_shortest_path", source_id |-> source_id,
                    target_id |-> target_id, weight |-> weight,
                    raised |-> out.raised, value |-> out.value]
    /\ UNCHANGED <<graph, data_points, prev_merge, stale, discarded, validation, db,
                   threads, written>>

ShortestPath ==
    \E source_id \in PathNodes, target_id \in PathNodes, weight \in PathWeights :
        GetShortestPath(source_id, target_id, weight)

\* build_graph over the day of the observations, every confidence admitted.
BuildDay == BuildGraph(1, 1, 5)

InitPath ==
    /\ data_points = <<>>
    /\ ret = [op |-> "init"]
    /\ prev_merge = NoMerge
    /\ stale = 0
    /\ discarded = FALSE
    /\ validation = NoValidation
    /\ graph = EmptyGraph
    /\ threads = <<>>
    /\ written = <<>>
    /\ db \in {[items |-> items, prices |-> rows[1], rates |-> rows[2]] :
                items \in ItemTables,
                rows \in {pr \in FramesOver(PathPrices, MaxRows) \X FramesOver(PathRates, MaxRows) :
                            Len(pr[1]) + Len(pr[2]) <= MaxRows}}

NextPath ==
    \/ BuildDay
    \/ ShortestPath

SpecPath == InitPath /\ [][NextPath]_vars

\* The nodes that the edges lead to from the nodes of the set.
RECURSIVE ReachableFrom(_)
ReachableFrom(nodes) ==
    LET next == nodes \cup {e.v : e \in {e \in graph.edges : e.u \in nodes}}
    IN IF next = nodes THEN nodes ELSE ReachableFrom(next)

\* The graph has a directed path from source to target.
HasPath(source_id, target_id) ==
    /\ source_id \in graph.nodes
    /\ target_id \in ReachableFrom({source_id})

\* C22: get_shortest_path returns an empty sequence and raises nothing for
\* every source and target between which the graph has no directed path;
\* when there is a path, the result starts at the source, ends at the target
\* and every two consecutive nodes of it are joined by an edge.
C22_ShortestPathOrEmpty ==
    ret.op = "get_shortest_path" =>
        IF HasPath(ret.source_id, ret.target_id)
        THEN /\ ~ret.raised
             /\ ret.value # <<>>
             /\ ret.value[1] = ret.source_id
             /\ ret.value[Len(ret.value)] = ret.target_id
             /\ \A i \in 1..(Len(ret.value) - 1) :
                    \E e \in graph.edges : e.u = ret.value[i] /\ e.v = ret.value[i + 1]
        ELSE ~ret.raised /\ ret.value = <<>>

----------------------------------------------------------------------------
(***************************************************************************)
(* save_to_database (src/pipeline/ingest.py) and the processing methods of *)
(* DataPipelineManager (src/pipeline/manager.py).                          *)
(*                                                                         *)
(* db holds the committed rows. A session is the committed rows with the   *)
(* rows that self.db.add has queued; it lives within one save_to_database. *)
(***************************************************************************)

\* Price(...) and ExchangeRate(...) of one row of the merged frame.
PriceOf(row) ==
    [item_id |-> row.item_id, price |-> row.value, timestamp |-> row.timestamp,
     source |-> row.source, confidence |-> row.confidence]

RateOf(row) ==
    [source_item_id |-> row.source_item_id, target_item_id |-> row.target_item_id,
     rate |-> row.value, timestamp |-> row.timestamp,
     source |-> row.source, confidence |-> row.confidence]

\* data[data['type'] == 'price'] followed by data[data['type'] ==
\* 'exchange_rate']: the order in which the rows are added to the session.
SaveOrder(data) ==
    SelectSeq(data, LAMBDA m : m.row.type = "price")
    \o SelectSeq(data, LAMBDA m : m.row.type = "exchange_rate")

\* self.db.add(...)
SessionAdd(session, m) == [session EXCEPT !.pending = Append(@, m)]

\* self.db.commit(): the queued rows join the committed ones.
SessionCommit(session) ==
    [session.committed EXCEPT
        !.prices = @ \o [i \in DOMAIN SelectSeq(session.pending, LAMBDA m : m.row.type = "price") |->
                            PriceOf(SelectSeq(session.pending, LAMBDA m : m.row.type = "price")[i].row)],
        !.rates = @ \o [i \in DOMAIN SelectSeq(session.pending, LAMBDA m : m.row.type = "exchange_rate") |->
                            RateOf(SelectSeq(session.pending, LAMBDA m : m.row.type = "exchange_rate")[i].row)]]

\* A rollback that commits the rows queued so far.
SessionRollback_Flushing(session) == SessionCommit(session)

\* self.db.rollback(): the queued rows are dropped.
SessionRollback(session) == session.committed

RECURSIVE AddAll(_, _)
AddAll(session, rows) ==
    IF rows = <<>> THEN session
    ELSE AddAll(SessionAdd(session, Head(rows)), Tail(rows))

\* What save_to_database does with the merged frame data. fault tells where
\* the database fails: nowhere (0), at the add of row fault, or at the
\* commit (above the number of rows). An empty frame has no 'type' column,
\* which raises KeyError. Every exception is rolled back and raised again.
SaveOutcome(database, data, fault) ==
    LET rows == SaveOrder(data)
        session == [committed |-> database, pending |-> <<>>]
    IN IF data = <<>>
       THEN [raised |-> TRUE, db |-> SessionRollback(session), labels |-> {}]
       ELSE IF fault \in 1..Len(rows)
       THEN [raised |-> TRUE,
             db |-> SessionRollback(AddAll(session, SubSeq(rows, 1, fault - 1))),
             labels |-> {}]
       ELSE IF fault > Len(rows)
       THEN [raised |-> TRUE, db |-> SessionRollback(AddAll(session, rows)), labels |-> {}]
       ELSE [raised |-> FALSE, db |-> SessionCommit(AddAll(session, rows)),
             labels |-> {rows[i].label : i \in DOMAIN rows}]

----------------------------------------------------------------------------
\* process_price_data and process_exchange_rate_data

\* Input domains: the frames handed to the manager. A frame that passes
\* through has the validator's column (price, rate) and ingest_data's
\* (value); others lack one of the two.
ManagerPriceColumns == {"timestamp", "item_id", "price", "value"}
ManagerRateColumns == {"timestamp", "source_item_id", "target_item_id", "rate", "value"}
ManagerColumnSets(data_type) ==
    IF data_type = "price"
    THEN {ManagerPriceColumns, ManagerPriceColumns \ {"value"}, ManagerPriceColumns \ {"price"}}
    ELSE {ManagerRateColumns, ManagerRateColumns \ {"value"}, ManagerRateColumns \ {"rate"}}

ManagerPriceRows ==
    [timestamp : {Datetime(t) : t \in Timestamps}, item_id : ItemIds,
     price : {90, NaN}, value : Values]

ManagerRateRows ==
    [timestamp : {Datetime(t) : t \in Timestamps}, source_item_id : ItemIds,
     target_item_id : {SVU}, rate : {90, NaN}, value : Values]

ManagerSources == {"a"}

\* The rows of a frame with the given columns.
ManagerRows(columns) ==
    {[col \in columns |-> r[col]] :
        r \in IF "item_id" \in columns THEN ManagerPriceRows ELSE ManagerRateRows}

\* The columns the validator reads; without one of them its except returns
\* {}.
ValidatedColumns(data_type) ==
    IF data_type = "price"
    THEN {"timestamp", "price", "item_id"}
    ELSE {"timestamp", "rate", "source_item_id", "target_item_id"}

\* validation_results of the manager's call, with the default limits; the
\* field empty tells the {} of a validator that caught an exception.
ManagerValidation(columns, rows, data_type) ==
    IF ~(ValidatedColumns(data_type) \subseteq columns)
    THEN [empty |-> TRUE, report |-> [validation_passed |-> FALSE]]
    ELSE IF data_type = "price"
    THEN [empty |-> FALSE, report |-> PriceReport(ConvertTimestamps(rows), 0, Infinity, 7)]
    ELSE [empty |-> FALSE, report |-> RateReport(ConvertTimestamps(rows), 0, Infinity, 1)]

\* The rows as ingest_data reads them: a datetime is the timestamp of the
\* data point.
IngestRows(columns, rows) ==
    [i \in DOMAIN rows |->
        [col \in columns |-> IF col = "timestamp" THEN rows[i][col].day ELSE rows[i][col]]]

\* A processing that ingests the batch before it looks at the report.
ProcessOutcome_IngestFirst(buf, database, columns, rows, source, data_type, fault) ==
    LET validation_results == ManagerValidation(columns, rows, data_type)
        ingest == IngestOutcome(columns, IngestRows(columns, rows), source, data_type,
                                DefaultConfidence)
        ingested == buf \o ingest.appended
        merged_data == MergeResult(ingested, {}, DefaultMinConfidence).points
        save == SaveOutcome(database, merged_data, fault)
    IN IF validation_results.empty
       THEN [stage |-> "validation_error", success |-> FALSE,
             validation_results |-> validation_results.report,
             data_points |-> buf, db |-> database, labels |-> {}]
       ELSE IF ~validation_results.report.validation_passed
       THEN [stage |-> "validation_failed", success |-> FALSE,
             validation_results |-> validation_results.report,
             data_points |-> ingested, db |-> database, labels |-> {}]
       ELSE IF ingest.raised
       THEN [stage |-> "ingest_error", success |-> FALSE,
             validation_results |-> validation_results.report,
             data_points |-> ingested, db |-> database, labels |-> {}]
       ELSE IF save.raised
       THEN [stage |-> "save_error", success |-> FALSE,
             validation_results |-> validation_results.report,
             data_points |-> ingested, db |-> save.db, labels |-> {}]
       ELSE [stage |-> "saved", success |-> TRUE,
             validation_results |-> validation_results.report,
             data_points |-> ingested, db |-> save.db, labels |-> save.labels]

\* The try block of process_price_data and process_exchange_rate_data with
\* its except, which turns every exception into success False: where the
\* call ended (stage), what it returns and what it leaves behind. The
\* transformations between ingest and merge catch their own exceptions and
\* touch neither the buffer nor the database.
ProcessOutcome(buf, database, columns, rows, source, data_type, fault) ==
    LET validation_results == ManagerValidation(columns, rows, data_type)
        ingest == IngestOutcome(columns, IngestRows(columns, rows), source, data_type,
                                DefaultConfidence)
        ingested == buf \o ingest.appended
        merged_data == MergeResult(ingested, {}, DefaultMinConfidence).points
        save == SaveOutcome(database, merged_data, fault)
    IN IF validation_results.empty
       THEN \* KeyError 'validation_passed'
            [stage |-> "validation_error", success |-> FALSE,
             validation_results |-> validation_results.report,
             data_points |-> buf, db |-> database, labels |-> {}]
       ELSE IF ~validation_results.report.validation_passed
       THEN [stage |-> "validation_failed", success |-> FALSE,
             validation_results |-> validation_results.report,
             data_points |-> buf, db |-> database, labels |-> {}]
       ELSE IF ingest.raised
       THEN [stage |-> "ingest_error", success |-> FALSE,
             validation_results |-> validation_results.report,
             data_points |-> ingested, db |-> database, labels |-> {}]
       ELSE IF save.raised
       THEN [stage |-> "save_error", success |-> FALSE,
             validation_results |-> validation_results.report,
             data_points |-> ingested, db |-> save.db, labels |-> {}]
       ELSE [stage |-> "saved", success |-> TRUE,
             validation_results |-> validation_results.report,
             data_points |-> ingested, db |-> save.db, labels |-> save.labels]

\* One call of process_price_data (data_type "price") or
\* process_exchange_rate_data ("exchange_rate").
ProcessData(columns, rows, source, data_type, fault) ==
    LET out == ProcessOutcome(data_points, db, columns, rows, source, data_type, fault)
    IN /\ data_points' = out.data_points
       /\ db' = out.db
       /\ written' = [i \in DOMAIN out.data_points |->
                        (IF i \in DOMAIN written THEN written[i] ELSE 0)
                        + (IF i \in out.labels THEN 1 ELSE 0)]
       /\ ret' = [op |-> IF data_type = "price" THEN "process_price_data"
                         ELSE "process_exchange_rate_data",
                  columns |-> columns, rows |-> rows,
                  fault |-> IF out.stage \in {"save_error", "saved"} THEN fault ELSE None,
                  stage |-> out.stage, raised |-> FALSE, success |-> out.success,
                  validation_results |-> out.validation_results]
       /\ UNCHANGED <<prev_merge, stale, discarded, validation, graph, threads>>

\* Where the database can fail during the call: at the add of each merged
\* row or at the commit, when the call gets as far as save_to_database.
SaveFaults(columns, rows, source, data_type) ==
    LET out == ProcessOutcome(data_points, db, columns, rows, source, data_type, 0)
    IN IF out.stage = "saved" THEN 0..(Cardinality(out.labels) + 1) ELSE {0}

ProcessPriceData ==
    \E columns \in ManagerColumnSets("price"), n \in 0..(MaxBuf - Len(data_points)) :
    \E rows \in [1..n -> ManagerRows(columns)], source \in ManagerSources :
    \E fault \in SaveFaults(columns, rows, source, "price") :
        ProcessData(columns, rows, source, "price", fault)

ProcessExchangeRateData ==
    \E columns \in ManagerColumnSets("exchange_rate"), n \in 0..(MaxBuf - Len(data_points)) :
    \E rows \in [1..n -> ManagerRows(columns)], source \in ManagerSources :
    \E fault \in SaveFaults(columns, rows, source, "exchange_rate") :
        ProcessData(columns, rows, source, "exchange_rate", fault)

InitManager ==
    /\ data_points = <<>>
    /\ ret = [op |-> "init"]
    /\ prev_merge = NoMerge
    /\ stale = 0
    /\ discarded = FALSE
    /\ validation = NoValidation
    /\ db = EmptyDb
    /\ graph = EmptyGraph
    /\ threads = <<>>
    /\ written = <<>>

NextManager ==
    \/ ProcessPriceData
    \/ ProcessExchangeRateData

SpecManager == InitManager /\ [][NextManager]_vars

----------------------------------------------------------------------------
\* Claims about the manager and save_to_database

ProcessOps == {"process_price_data", "process_exchange_rate_data"}

\* The report the validator gives for the frame of the call that ret
\* describes.
ReportOfCall(call) ==
    ManagerValidation(call.columns, call.rows,
                      IF call.op = "process_price_data" THEN "price" ELSE "exchange_rate")

\* The rows of the default merge of a buffer, as the database stores them.
MergedPrices(buf) ==
    LET rows == SelectSeq(MergeResult(buf, {}, DefaultMinConfidence).points,
                          LAMBDA m : m.row.type = "price")
    IN [i \in DOMAIN rows |-> PriceOf(rows[i].row)]

MergedRates(buf) ==
    LET rows == SelectSeq(MergeResult(buf, {}, DefaultMinConfidence).points,
                          LAMBDA m : m.row.type = "exchange_rate")
    IN [i \in DOMAIN rows |-> RateOf(rows[i].row)]

\* C24: when the validator's report for the batch has validation_passed
\* false, process_price_data / process_exchange_rate_data returns success
\* false with that report, and neither the buffer nor the database changes.
C24_FailedValidationNotMerged ==
    [][(/\ ret'.op \in ProcessOps
        /\ ~ReportOfCall(ret').empty
        /\ ~ReportOfCall(ret').report.validation_passed)
       => /\ ~ret'.success
          /\ ret'.validation_results = ReportOfCall(ret').report
          /\ data_points' = data_points
          /\ db' = db]_vars

\* A batch failed validation on a manager whose buffer and database already
\* hold an earlier batch.
C24_Witness ==
    /\ ret.op \in ProcessOps
    /\ ret.stage = "validation_failed"
    /\ Len(ret.rows) > 0
    /\ ~ret.success
    /\ Len(data_points) > 0
    /\ Len(db.prices) + Len(db.rates) > 0

\* C28: over successful processing calls every buffered observation is
\* committed to the database at most once.
C28_WrittenAtMostOnce ==
    \A i \in DOMAIN written : written[i] <= 1

\* C29: the processing calls never raise, and one that returns success
\* false leaves the buffer as it was before the call.
C29_FailureLeavesBuffer ==
    [][ret'.op \in ProcessOps
       => /\ ~ret'.raised
          /\ (~ret'.success => data_points' = data_points)]_vars

\* C30: a call that reaches save_to_database either commits every price
\* and rate row of the merged data, or fails and leaves the database as it
\* was.
C30_SaveAllOrNothing ==
    [][(ret'.op \in ProcessOps /\ ret'.stage \in {"saved", "save_error"})
       => IF ret'.stage = "saved"
          THEN db' = [db EXCEPT !.prices = @ \o MergedPrices(data_points'),
                                !.rates = @ \o MergedRates(data_points')]
          ELSE db' = db]_vars

\* The database failed after rows of the call had been added to the
\* session, on a database that holds an earlier commit.
C30_Witness ==
    /\ ret.op \in ProcessOps
    /\ ret.stage = "save_error"
    /\ ret.fault >= 2
    /\ Len(db.prices) + Len(db.rates) > 0

----------------------------------------------------------------------------
(***************************************************************************)
(* ingest_data called from two threads on one DataIngestionPipeline.       *)
(*                                                                         *)
(* ingest_data takes no lock. list.append is atomic in the interpreter,    *)
(* but a thread switch can fall between two iterations of the loop, so one *)
(* step of a call is one iteration: build the DataPoint, append it.        *)
(* threads[t] is call t: the data points its loop appends (points), how    *)
(* many it has appended (done), whether it raised, and the buffer          *)
(* positions its appends landed on (placed).                               *)
(***************************************************************************)

ThreadIds == {1, 2}

\* Call t enters ingest_data: the column check, and for a frame that passes
\* it the loop is about to start.
BeginIngest(columns, rows, source, data_type, confidence) ==
    LET out == IngestOutcome(columns, rows, source, data_type, confidence)
    IN /\ Len(threads) < Cardinality(ThreadIds)
       /\ threads' = Append(threads, [points |-> out.appended, done |-> 0,
                                      raised |-> out.raised, placed |-> <<>>])
       /\ prev_merge' = NoMerge
       /\ UNCHANGED <<data_points, ret, stale, discarded, validation, db, graph, written>>

\* Call t can run its next iteration whenever it has a row left.
CanAppend(t) == threads[t].done < Len(threads[t].points)

\* One iteration of the loop of call t: self.data_points.append(data_point)
AppendRow(t) ==
    /\ CanAppend(t)
    /\ data_points' = Append(data_points, threads[t].points[threads[t].done + 1])
    /\ threads' = [threads EXCEPT ![t].done = @ + 1,
                                  ![t].placed = Append(@, Len(data_points) + 1)]
    /\ prev_merge' = NoMerge
    /\ UNCHANGED <<ret, stale, discarded, validation, db, graph, written>>

\* Input domains: price frames, complete or without the value column.
ConcurrentColumnSets == {PriceColumns, PriceColumns \ {"value"}}

Begin ==
    \E columns \in ConcurrentColumnSets, n \in 1..MaxRows :
    \E rows \in [1..n -> RowsOver(columns)] :
    \E source \in Sources :
        BeginIngest(columns, rows, source, "price", DefaultConfidence)

Step == \E t \in DOMAIN threads : AppendRow(t)

InitConcurrent ==
    /\ data_points = <<>>
    /\ ret = [op |-> "init"]
    /\ prev_merge = NoMerge
    /\ stale = 0
    /\ discarded = FALSE
    /\ validation = NoValidation
    /\ db = EmptyDb
    /\ graph = EmptyGraph
    /\ threads = <<>>
    /\ written = <<>>

NextConcurrent ==
    \/ Begin
    \/ Step

SpecConcurrent == InitConcurrent /\ [][NextConcurrent]_vars

\* Both calls have returned.
BothReturned ==
    /\ Len(threads) = Cardinality(ThreadIds)
    /\ \A t \in DOMAIN threads : threads[t].done = Len(threads[t].points)

\* C25: once two concurrent ingest_data calls have returned, the buffer
\* holds every record of both exactly once, and the records of each call
\* lie next to each other in their original order.
C25_IngestSerialized ==
    BothReturned =>
        /\ Len(data_points) = Len(threads[1].points) + Len(threads[2].points)
        /\ \A t \in DOMAIN threads : \A k \in DOMAIN threads[t].points :
              data_points[threads[t].placed[k]] = threads[t].points[k]
        /\ \A k \in DOMAIN threads[1].placed : \A l \in DOMAIN threads[2].placed :
              threads[1].placed[k] # threads[2].placed[l]
        /\ \A t \in DOMAIN threads : \A k \in 1..(Len(threads[t].placed) - 1) :
              threads[t].placed[k + 1] = threads[t].placed[k] + 1

----------------------------------------------------------------------------
(***************************************************************************)
(* The batch updates: DataUpdater (src/scripts/update_data.py),            *)
(* DataCollector.initialize_data (src/utils/data_collector.py) and         *)
(* batch_update_prices (src/app.py).                                       *)
(*                                                                         *)
(* Here db.items gives the type of each item, db.prices the Price rows in  *)
(* the order of their timestamps (pe_ratio is the 'pe_ratio' that          *)
(* calculate_svu_value finds in price.metadata, None when there is none),  *)
(* and db.svu_values the SVUValue rows.                                    *)
(***************************************************************************)

BaseValue == 100

\* Input domains. "bond" stands for the item types calculate_svu_value has
\* no branch for.
UpdaterIds == {1, 2}
UpdaterTypes == {"currency", "crypto", "commodity", "stock", "bond"}
UpdaterItems == UNION {[ids -> UpdaterTypes] : ids \in {{1}, UpdaterIds}}
UpdaterPrices == [item_id : UpdaterIds, price : {90}, pe_ratio : {None, 15}]

RECURSIVE Ordered(_)
Ordered(ids) ==
    IF ids = {} THEN <<>>
    ELSE LET first == CHOOSE i \in ids : \A j \in ids : i <= j
         IN <<first>> \o Ordered(ids \ {first})

\* .filter_by(item_id=item.id).order_by(Price.timestamp.desc()).first(), as
\* a sequence of at most one row.
LatestPrice(database, id) ==
    LET own == SelectSeq(database.prices, LAMBDA p : p.item_id = id)
    IN IF own = <<>> THEN <<>> ELSE <<own[Len(own)]>>

\* calculate_svu_value. The crypto and commodity branches query a name
\* session that is neither a parameter nor a global of the module
\* (NameError). A stock without pe_ratio and every type without a branch
\* fall through to the last line, which returns base_value.
CalculateSvuValue(item_type, price) ==
    IF item_type = "currency"
    THEN [raised |-> FALSE, value |-> BaseValue * price.price]
    ELSE IF item_type \in {"crypto", "commodity"}
    THEN [raised |-> TRUE, value |-> None]
    ELSE IF item_type = "stock" /\ price.pe_ratio # None
    THEN [raised |-> FALSE, value |-> (BaseValue * price.price) \div price.pe_ratio]
    ELSE [raised |-> FALSE, value |-> BaseValue]

\* The items update_svu_values values: those with a latest price.
Priced(database) ==
    {id \in DOMAIN database.items : LatestPrice(database, id) # <<>>}

\* update_svu_values: one SVUValue per priced item, committed after the
\* loop; an exception of calculate_svu_value leaves the with block before
\* the commit and is raised again.
SvuValuesOutcome(database) ==
    LET ids == Ordered(Priced(database))
        Valued(id) == CalculateSvuValue(database.items[id], LatestPrice(database, id)[1])
    IN IF \E i \in DOMAIN ids : Valued(ids[i]).raised
       THEN [raised |-> TRUE, db |-> database]
       ELSE [raised |-> FALSE,
             db |-> [database EXCEPT !.svu_values =
                        @ \o [i \in DOMAIN ids |->
                                 [item_id |-> ids[i], svu_value |-> Valued(ids[i]).value]]]]

UpdateSvuValues ==
    LET out == SvuValuesOutcome(db)
    IN /\ Len(db.svu_values) < MaxRows
       /\ db' = out.db
       /\ ret' = [op |-> "update_svu_values", failed |-> {}, attempted |-> <<"svu_values">>,
                  errors |-> {}, raised |-> out.raised]
       /\ UNCHANGED <<data_points, prev_merge, stale, discarded, validation, graph,
                      threads, written>>

\* update_currency_data, update_crypto_data, update_commodity_data and
\* update_stock_data without a failure of their API: a Price for every item
\* of the type, committed at the end of the update.
UpdateData(database, item_type) ==
    LET ids == Ordered({id \in DOMAIN database.items : database.items[id] = item_type})
    IN [database EXCEPT !.prices =
           @ \o [i \in DOMAIN ids |->
                    [item_id |-> ids[i], price |-> 90,
                     pe_ratio |-> IF item_type = "stock" THEN 15 ELSE None]]]

RunOnceSteps == <<"currency", "crypto", "commodity", "stock">>

\* The updates of run_once in the order of its try block, up to the first
\* that raises: each update raises its exception again and run_once has one
\* try around all of them.
RECURSIVE RunSteps(_, _, _)
RunSteps(database, steps, failed) ==
    IF steps = <<>>
    THEN [db |-> database, attempted |-> <<>>, raised |-> FALSE]
    ELSE IF Head(steps) \in failed
    THEN [db |-> database, attempted |-> <<Head(steps)>>, raised |-> TRUE]
    ELSE LET rest == RunSteps(UpdateData(database, Head(steps)), Tail(steps), failed)
         IN [rest EXCEPT !.attempted = <<Head(steps)>> \o @]

\* run_once: the four data updates, then update_svu_values; the except logs
\* and raises again.
RunOnce(failed) ==
    LET data == RunSteps(db, RunOnceSteps, failed)
        values == SvuValuesOutcome(data.db)
    IN /\ Len(db.prices) < MaxRows
       /\ Len(db.svu_values) < MaxRows
       /\ db' = IF data.raised THEN data.db ELSE values.db
       /\ ret' = [op |-> "run_once",
                  failed |-> failed \cup (IF ~data.raised /\ values.raised
                                          THEN {"svu_values"} ELSE {}),
                  attempted |-> IF data.raised THEN data.attempted
                                ELSE data.attempted \o <<"svu_values">>,
                  errors |-> {},
                  raised |-> data.raised \/ values.raised]
       /\ UNCHANGED <<data_points, prev_merge, stale, discarded, validation, graph,
                      threads, written>>

InitializeSteps == <<"commodity", "currency", "crypto">>

\* The price part of initialize_data: gold, currency rates and crypto
\* prices, each in a try of its own whose except logs the error.
RECURSIVE InitializeAll(_, _, _)
InitializeAll(database, steps, failed) ==
    IF steps = <<>> THEN database
    ELSE InitializeAll(IF Head(steps) \in failed THEN database
                       ELSE UpdateData(database, Head(steps)),
                       Tail(steps), failed)

InitializeData(failed) ==
    /\ Len(db.prices) < MaxRows
    /\ db' = InitializeAll(db, InitializeSteps, failed)
    /\ ret' = [op |-> "initialize_data", failed |-> failed, attempted |-> InitializeSteps,
               errors |-> failed, raised |-> FALSE]
    /\ UNCHANGED <<data_points, prev_merge, stale, discarded, validation, graph,
                   threads, written>>

\* batch_update_prices for an admin. fetched[id] is what
\* validate_and_fetch_data does for the item: it gives a price, gives
\* nothing usable, or raises. Every item of the table is tried; the except
\* inside the loop appends the error to errors.
BatchUpdatePrices(fetched) ==
    LET ids == Ordered(DOMAIN db.items)
        updated == Ordered({id \in DOMAIN db.items : fetched[id] = "price"})
    IN /\ Len(db.prices) < MaxRows
       /\ db' = [db EXCEPT !.prices =
                    @ \o [i \in DOMAIN updated |->
                             [item_id |-> updated[i], price |-> 90, pe_ratio |-> None]]]
       /\ ret' = [op |-> "batch_update_prices",
                  failed |-> {id \in DOMAIN db.items : fetched[id] = "raises"},
                  attempted |-> ids,
                  errors |-> {id \in DOMAIN db.items : fetched[id] # "price"},
                  raised |-> FALSE]
       /\ UNCHANGED <<data_points, prev_merge, stale, discarded, validation, graph,
                      threads, written>>

Run == \E failed \in SUBSET {RunOnceSteps[i] : i \in DOMAIN RunOnceSteps} : RunOnce(failed)

Initialize ==
    \E failed \in SUBSET {InitializeSteps[i] : i \in DOMAIN InitializeSteps} :
        InitializeData(failed)

BatchUpdate ==
    \E fetched \in [DOMAIN db.items -> {"price", "nothing", "raises"}] :
        BatchUpdatePrices(fetched)

\* A database with items and at most one price for each.
InitUpdate ==
    /\ data_points = <<>>
    /\ ret = [op |-> "init"]
    /\ prev_merge = NoMerge
    /\ stale = 0
    /\ discarded = FALSE
    /\ validation = NoValidation
    /\ graph = EmptyGraph
    /\ threads = <<>>
    /\ written = <<>>
    /\ \E items \in UpdaterItems, n \in 0..1 :
       \E prices \in [1..n -> UpdaterPrices] :
          /\ \A i \in 1..n : prices[i].item_id \in DOMAIN items
          /\ db = [items |-> items, prices |-> prices, svu_values |-> <<>>]

NextUpdate ==
    \/ UpdateSvuValues
    \/ Run
    \/ Initialize
    \/ BatchUpdate

SpecUpdate == InitUpdate /\ [][NextUpdate]_vars

\* The type has no rule, or the rule's input is missing: the value of the
\* item cannot be derived.
NotDerivable(item_type, price) ==
    \/ item_type \notin {"currency", "crypto", "commodity", "stock"}
    \/ item_type = "stock" /\ price.pe_ratio = None

BatchOps == {"run_once", "initialize_data", "batch_update_prices"}

\* C26: in a batch update, when the update of one source raises, every
\* source is still attempted and the batch itself does not raise.
C26_FailuresCollected ==
    (ret.op \in BatchOps /\ ret.failed # {})
        => /\ ~ret.raised
           /\ Len(ret.attempted) = (IF ret.op = "run_once" THEN Len(RunOnceSteps) + 1
                                    ELSE IF ret.op = "initialize_data"
                                    THEN Len(InitializeSteps)
                                    ELSE Cardinality(DOMAIN db.items))

====
